---- MODULE Spec2Model ----
\* Serverless cost analysis script (src/script.py): the numeric pipeline that
\* runs top to bottom once per page load, from the coerced table to the six
\* exercises.  Floats are modelled as exact rationals plus NaN and +/-inf; the
\* pandas operations are modelled by what they do to NaN.
EXTENDS Integers, Sequences, FiniteSets, TLC

VARIABLES pc, exception, serverless_functions_dataframe, cost_sorted_dataframe,
          total_monthly_cost, top_eighty_percentage_count,
          memory_rightsizing_candidates, provisioned_concurrency_functions,
          total_invocations, low_value_workloads, X, y, model,
          container_candidates, shown

vars == <<pc, exception, serverless_functions_dataframe, cost_sorted_dataframe,
          total_monthly_cost, top_eighty_percentage_count,
          memory_rightsizing_candidates, provisioned_concurrency_functions,
          total_invocations, low_value_workloads, X, y, model,
          container_candidates, shown>>

-----------------------------------------------------------------------------
\* Bounds of the model.

\* Largest number of data rows of a loaded table.
MaxRows == 3

\* Largest number of data rows of a table whose rows vary in many fields.
MaxViewRows == 2

-----------------------------------------------------------------------------
\* float64 values: NaN, +inf, -inf, or an exact rational n/d in lowest terms.

Abs(a) == IF a < 0 THEN -a ELSE a

Sign(a) == IF a < 0 THEN -1 ELSE IF a > 0 THEN 1 ELSE 0

RECURSIVE GCD(_, _)
GCD(a, b) == IF b = 0 THEN a ELSE GCD(b, a % b)

NaN == [k |-> "nan", n |-> 0, d |-> 1]
PInf == [k |-> "inf", n |-> 1, d |-> 1]
NInf == [k |-> "inf", n |-> -1, d |-> 1]

\* n/d with d # 0, in lowest terms with a positive denominator.
Frac(n, d) ==
    LET g == GCD(Abs(n), Abs(d))
        s == IF d < 0 THEN -1 ELSE 1
    IN  [k |-> "num", n |-> (s * n) \div g, d |-> (s * d) \div g]

Num(n) == [k |-> "num", n |-> n, d |-> 1]

IsNaN(a) == a.k = "nan"
IsNum(a) == a.k = "num"
IsInf(a) == a.k = "inf"

\* IEEE addition; the sum is taken over the least common denominator.
Add(a, b) ==
    IF IsNaN(a) \/ IsNaN(b) THEN NaN
    ELSE IF IsInf(a) /\ IsInf(b) THEN (IF a.n = b.n THEN a ELSE NaN)
    ELSE IF IsInf(a) THEN a
    ELSE IF IsInf(b) THEN b
    ELSE LET g == GCD(a.d, b.d)
         IN  Frac(a.n * (b.d \div g) + b.n * (a.d \div g), (a.d \div g) * b.d)

Neg(a) == IF IsNaN(a) THEN NaN ELSE [a EXCEPT !.n = -a.n]

Sub(a, b) == Add(a, Neg(b))

\* IEEE multiplication; the factors are reduced crosswise before multiplying.
Mul(a, b) ==
    IF IsNaN(a) \/ IsNaN(b) THEN NaN
    ELSE IF IsInf(a) \/ IsInf(b)
         THEN (IF a.n = 0 \/ b.n = 0 THEN NaN
               ELSE IF Sign(a.n) * Sign(b.n) > 0 THEN PInf ELSE NInf)
    ELSE LET p == Frac(a.n, b.d)
             q == Frac(b.n, a.d)
         IN  Frac(p.n * q.n, p.d * q.d)

\* IEEE division: x/0 is +/-inf, 0/0 is NaN, nothing raises.
Div(a, b) ==
    IF IsNaN(a) \/ IsNaN(b) THEN NaN
    ELSE IF IsInf(a) THEN (IF IsInf(b) THEN NaN ELSE IF b.n < 0 THEN Neg(a) ELSE a)
    ELSE IF IsInf(b) THEN Num(0)
    ELSE IF b.n = 0 THEN (IF a.n = 0 THEN NaN ELSE IF a.n > 0 THEN PInf ELSE NInf)
    ELSE Mul(a, Frac(b.d, b.n))

\* IEEE comparisons: every comparison with NaN is false.
Lt(a, b) ==
    IF IsNaN(a) \/ IsNaN(b) THEN FALSE
    ELSE IF IsInf(a) THEN a.n < 0 /\ ~(IsInf(b) /\ b.n < 0)
    ELSE IF IsInf(b) THEN b.n > 0
    ELSE LET g == GCD(a.d, b.d)
         IN  a.n * (b.d \div g) < b.n * (a.d \div g)

Gt(a, b) == Lt(b, a)

Le(a, b) ==
    IF IsNaN(a) \/ IsNaN(b) THEN FALSE
    ELSE ~Lt(b, a)

-----------------------------------------------------------------------------
\* pandas operations on frames (sequences of rows) and series (sequences of
\* values).  A row is a record; its field "index" is the pandas index label.

Positions(seq) == [i \in 1..Len(seq) |-> i]

\* frame[column]
Column(frame, c) == [i \in 1..Len(frame) |-> frame[i][c]]

\* frame[column] = series: the column is added, or replaced if it exists.
SetColumn(frame, c, series) ==
    [i \in 1..Len(frame) |-> (c :> series[i]) @@ frame[i]]

\* frame[mask]: the rows whose mask is True, in the frame's order.
BooleanIndex(frame, mask) ==
    LET keep == SelectSeq(Positions(frame), LAMBDA i : mask[i])
    IN  [j \in 1..Len(keep) |-> frame[keep[j]]]

RECURSIVE SumUpTo(_, _)
SumUpTo(series, i) ==
    IF i = 0 THEN Num(0)
    ELSE IF IsNaN(series[i]) THEN SumUpTo(series, i - 1)
    ELSE Add(SumUpTo(series, i - 1), series[i])

\* Series.sum(): skipna=True, so NaN counts as 0 and the empty sum is 0.
SeriesSum(series) == SumUpTo(series, Len(series))

\* Series.cumsum(): skipna=True, so the running sum steps over a NaN, but the
\* result AT a NaN position is NaN.
SeriesCumsum(series) ==
    [i \in 1..Len(series) |->
        IF IsNaN(series[i]) THEN NaN ELSE SumUpTo(series, i)]

\* (mask).sum(): the number of True entries.
CountTrue(mask) == Cardinality({i \in 1..Len(mask) : mask[i]})

\* Series.fillna(0): a new series, the receiver is left alone.
Fillna0(series) ==
    [i \in 1..Len(series) |-> IF IsNaN(series[i]) THEN Num(0) ELSE series[i]]

\* frame.sort_values(column, ascending=False): kind defaults to "quicksort",
\* which is not a stable sort, and na_position to "last".  The rows with a
\* value come first in non-increasing order, rows with equal values in any
\* order; the NaN rows follow in their original order.  Every order the
\* sort may produce is an element of the result.
SortValuesDescending(frame, c) ==
    LET pos    == Positions(frame)
        nans   == SelectSeq(pos, LAMBDA i : IsNaN(frame[i][c]))
        valued == {i \in 1..Len(frame) : ~IsNaN(frame[i][c])}
        m      == Cardinality(valued)
        orders == {p \in [1..m -> valued] :
                      /\ \A i, j \in 1..m : i # j => p[i] # p[j]
                      /\ \A i, j \in 1..m :
                            i < j => ~Lt(frame[p[i]][c], frame[p[j]][c])}
    IN  {[i \in 1..Len(frame) |->
             IF i <= m THEN frame[p[i]] ELSE frame[nans[i - m]]] : p \in orders}

-----------------------------------------------------------------------------
\* sklearn.linear_model.LinearRegression on two features, in exact arithmetic.

\* Mutant: the derived column written over the input column GBSeconds.
GBSecondsColumn == "GBSeconds"

\* The name of the column line 166 adds and lines 173 and 188 read.
CalculatedGBSecondsColumn == "CalculatedGBSeconds"

RECURSIVE DotUpTo(_, _, _)
DotUpTo(u, v, i) ==
    IF i = 0 THEN Num(0) ELSE Add(DotUpTo(u, v, i - 1), Mul(u[i], v[i]))

Dot(u, v) == DotUpTo(u, v, Len(u))

Mean(series) == Div(SeriesSum(series), Num(Len(series)))

Centered(series) ==
    LET mu == Mean(series) IN [i \in 1..Len(series) |-> Sub(series[i], mu)]

\* The Gram matrix [[a, c], [c, d]] of the centered features.
Gram(features) ==
    LET x1 == Centered(Column(features, CalculatedGBSecondsColumn))
        x2 == Centered(Column(features, "DataTransferGB"))
    IN  [a |-> Dot(x1, x1), c |-> Dot(x1, x2), d |-> Dot(x2, x2)]

GramDet(g) == Sub(Mul(g.a, g.d), Mul(g.c, g.c))

\* The centered feature columns are linearly dependent (degenerate design).
Collinear(features) == GramDet(Gram(features)) = Num(0)

\* LinearRegression().fit(X, y) raises ValueError on 0 samples and on nothing
\* else here: 1 or 2 samples and collinear columns are fitted.
FitRaisesOn(features) == Len(features) = 0

\* LinearRegression().fit(X, y) with fit_intercept=True: least squares on
\* the centered data, the minimum-norm solution when the columns are
\* dependent (lstsq), intercept_ from the means.
LinearRegressionFit(features, target) ==
    LET c1 == Column(features, CalculatedGBSecondsColumn)
        c2 == Column(features, "DataTransferGB")
        x1 == Centered(c1)
        x2 == Centered(c2)
        g  == Gram(features)
        b1 == Dot(x1, target)
        b2 == Dot(x2, target)
        det == GramDet(g)
        t  == Add(g.a, g.d)
        coef ==
            IF det # Num(0)
            THEN <<Div(Sub(Mul(g.d, b1), Mul(g.c, b2)), det),
                   Div(Sub(Mul(g.a, b2), Mul(g.c, b1)), det)>>
            ELSE IF t # Num(0)
            THEN <<Add(Mul(Div(g.a, t), Div(b1, t)), Mul(Div(g.c, t), Div(b2, t))),
                   Add(Mul(Div(g.c, t), Div(b1, t)), Mul(Div(g.d, t), Div(b2, t)))>>
            ELSE <<Num(0), Num(0)>>
    IN  [fitted |-> TRUE,
         coef_ |-> coef,
         intercept_ |-> Sub(Mean(target),
                            Add(Mul(Mean(c1), coef[1]), Mul(Mean(c2), coef[2])))]

\* model.predict(X)
Predict(m, features) ==
    [i \in 1..Len(features) |->
        Add(m.intercept_,
            Add(Mul(m.coef_[1], features[i][CalculatedGBSecondsColumn]),
                Mul(m.coef_[2], features[i].DataTransferGB)))]

-----------------------------------------------------------------------------
\* The thresholds of the exercises.

EightyPercent == 80
RightsizingMemoryMB == 1024
LowValueInvocationPercentage == 1
LowValueCostUSD == 10
ContainerAvgDurationMs == 3000
ContainerMemoryMB == 2048
ContainerInvocationsPerMonth == 1000
RightsizingDurationPerMB == Frac(3, 10)

\* Mutant: the threshold compared with < instead of <=.
WithinEightyPercentStrict(row) == Lt(row.CumulativePercentage, Num(80))

\* cost_sorted_dataframe["CumulativePercentage"] <= 80, row by row
WithinEightyPercent(row) == Le(row.CumulativePercentage, Num(EightyPercent))

\* Mutant: the Environment condition left out.
RightsizingMaskAnyEnvironment(row) ==
    /\ Lt(row.DurationPerMB, RightsizingDurationPerMB)
    /\ Gt(row.MemoryMB, Num(RightsizingMemoryMB))

\* The mask of memory_rightsizing_candidates, row by row.
RightsizingMask(row) ==
    /\ Lt(row.DurationPerMB, RightsizingDurationPerMB)
    /\ Gt(row.MemoryMB, Num(RightsizingMemoryMB))
    /\ row.Environment = "production"

\* The mask of provisioned_concurrency_functions.
ProvisionedMask(row) == Gt(row.ProvisionedConcurrency, Num(0))

\* Mutant: "InvocationPercentage < 1" written as "not >= 1", which a NaN
\* satisfies.
LowValueMaskNegated(row) ==
    /\ ~Le(Num(1), row.InvocationPercentage)
    /\ Gt(row.CostUSD, Num(10))

\* The mask of low_value_workloads.
LowValueMask(row) ==
    /\ Lt(row.InvocationPercentage, Num(LowValueInvocationPercentage))
    /\ Gt(row.CostUSD, Num(LowValueCostUSD))

\* The mask of container_candidates.
ContainerMask(row) ==
    /\ Gt(row.AvgDurationMs, Num(ContainerAvgDurationMs))
    /\ Gt(row.MemoryMB, Num(ContainerMemoryMB))
    /\ Lt(row.InvocationsPerMonth, Num(ContainerInvocationsPerMonth))

\* AvgDurationMs / MemoryMB, row by row
DurationPerMBOf(row) == Div(row.AvgDurationMs, row.MemoryMB)

\* (InvocationsPerMonth / total_invocations) * 100
InvocationPercentageOf(row, total) ==
    Mul(Div(row.InvocationsPerMonth, total), Num(100))

\* InvocationsPerMonth * (AvgDurationMs / 1000) * (MemoryMB / 1024)
CalculatedGBSecondsOf(row) ==
    Mul(Mul(row.InvocationsPerMonth, Div(row.AvgDurationMs, Num(1000))),
        Div(row.MemoryMB, Num(1024)))

\* Mutant: the percentage of the row's own cost, not of the running sum.
CumulativePercentageOfOwnCost(row, total) ==
    Mul(Div(row.CostUSD, total), Num(100))

\* (CumulativeCost / total_monthly_cost) * 100
CumulativePercentageOf(row, total) ==
    Mul(Div(row.CumulativeCost, total), Num(100))

\* X = frame[["CalculatedGBSeconds", "DataTransferGB"]].fillna(0): a new frame
FeatureFrame(frame) ==
    LET g == Fillna0(Column(frame, CalculatedGBSecondsColumn))
        t == Fillna0(Column(frame, "DataTransferGB"))
    IN  [i \in 1..Len(frame) |->
            (CalculatedGBSecondsColumn :> g[i])
                @@ [index |-> frame[i].index, DataTransferGB |-> t[i]]]

\* y = frame["CostUSD"].fillna(0): a new series
TargetSeries(frame) == Fillna0(Column(frame, "CostUSD"))

-----------------------------------------------------------------------------
\* Input tables: the state after loading and numeric coercion (lines 10-48).
\* Every numeric field is a number or NaN; Environment is a string, "None"
\* standing for a missing cell.

InputColumns ==
    {"FunctionName", "Environment", "InvocationsPerMonth", "AvgDurationMs",
     "MemoryMB", "ColdStartRate", "ProvisionedConcurrency", "GBSeconds",
     "DataTransferGB", "CostUSD"}

BaseRow ==
    [FunctionName |-> "fn", Environment |-> "production",
     InvocationsPerMonth |-> Num(200), AvgDurationMs |-> Num(1000),
     MemoryMB |-> Num(4096), ColdStartRate |-> Num(0),
     ProvisionedConcurrency |-> Num(0), GBSeconds |-> Num(800),
     DataTransferGB |-> Num(1), CostUSD |-> Num(20)]

\* Rows that differ in CostUSD alone (absent, negative, zero, ties).
CostValues == {NaN, Num(-2), Num(0), Num(1), Num(4), Num(10)}
CostRows == {[BaseRow EXCEPT !.CostUSD = c] : c \in CostValues}

\* Rows that differ in the fields DurationPerMB and the rightsizing mask read.
DurationRows ==
    {[BaseRow EXCEPT !.AvgDurationMs = a, !.MemoryMB = m] :
        a \in {NaN, Num(0), Num(1000), Num(4000)},
        m \in {NaN, Num(0), Num(4096)}}
    \cup {[BaseRow EXCEPT !.MemoryMB = Num(1024)]}
    \cup {[BaseRow EXCEPT !.Environment = "staging"]}

\* Rows that meet a view's thresholds, and rows that lack a field a view reads.
RightsizingRows ==
    {BaseRow, [BaseRow EXCEPT !.AvgDurationMs = NaN],
     [BaseRow EXCEPT !.MemoryMB = NaN], [BaseRow EXCEPT !.Environment = "None"]}
ProvisionedRows ==
    {[BaseRow EXCEPT !.ProvisionedConcurrency = v] : v \in {NaN, Num(2)}}
LowValueRows ==
    {[BaseRow EXCEPT !.InvocationsPerMonth = i, !.CostUSD = c] :
        i \in {NaN, Num(1)}, c \in {NaN, Num(20)}}
ContainerRows ==
    {[BaseRow EXCEPT !.AvgDurationMs = Num(4000), !.InvocationsPerMonth = i] :
        i \in {NaN, Num(200)}}
ViewRows ==
    RightsizingRows \cup ProvisionedRows \cup LowValueRows \cup ContainerRows

\* Rows that differ in the inputs of the cost model.
ModelRows ==
    {[BaseRow EXCEPT !.MemoryMB = Num(1024), !.InvocationsPerMonth = i,
                     !.DataTransferGB = tc[1], !.CostUSD = tc[2]] :
        i \in {Num(1), Num(2)},
        tc \in {<<Num(1), Num(5)>>, <<NaN, Num(5)>>, <<NaN, NaN>>}}
    \cup {[BaseRow EXCEPT !.MemoryMB = Num(1024), !.InvocationsPerMonth = NaN]}

\* pd.DataFrame(data_rows, columns=header): the rows in file order under a
\* RangeIndex.
DataFrame(rows) ==
    [i \in 1..Len(rows) |-> ("index" :> (i - 1)) @@ rows[i]]

Tables(rowSet, maxRows) ==
    UNION {{DataFrame(t) : t \in [1..n -> rowSet]} : n \in 0..maxRows}

NoModel == [fitted |-> FALSE, coef_ |-> <<NaN, NaN>>, intercept_ |-> NaN]

InitWith(tables) ==
    /\ serverless_functions_dataframe \in tables
    /\ pc = "total_cost"
    /\ exception = "None"
    /\ cost_sorted_dataframe = <<>>
    /\ total_monthly_cost = NaN
    /\ top_eighty_percentage_count = 0
    /\ memory_rightsizing_candidates = <<>>
    /\ provisioned_concurrency_functions = <<>>
    /\ total_invocations = NaN
    /\ low_value_workloads = <<>>
    /\ X = <<>>
    /\ y = <<>>
    /\ model = NoModel
    /\ container_candidates = <<>>
    /\ shown = {}

Init == InitWith(Tables(CostRows, MaxRows))
InitValuedCost ==
    InitWith({t \in Tables(CostRows, MaxRows) :
                 \A i \in 1..Len(t) : ~IsNaN(t[i].CostUSD)})
InitDuration == InitWith(Tables(DurationRows, MaxViewRows))
InitViews == InitWith(Tables(ViewRows, MaxViewRows))
InitModel == InitWith(Tables(ModelRows, MaxRows))

-----------------------------------------------------------------------------
\* The statements of the script, in order.  An uncaught exception ends the
\* run: no statement after it executes.

At(label) == pc = label /\ exception = "None"

\* st.write(f"Total cost: ...")
WriteTotalCost ==
    /\ At("total_cost")
    /\ shown' = shown \cup {"Total cost"}
    /\ pc' = "sort"
    /\ UNCHANGED <<exception, serverless_functions_dataframe, cost_sorted_dataframe,
                   total_monthly_cost, top_eighty_percentage_count,
                   memory_rightsizing_candidates, provisioned_concurrency_functions,
                   total_invocations, low_value_workloads, X, y, model,
                   container_candidates>>

\* cost_sorted_dataframe = frame.sort_values("CostUSD", ascending=False)
SortByCost ==
    /\ At("sort")
    /\ cost_sorted_dataframe' \in
           SortValuesDescending(serverless_functions_dataframe, "CostUSD")
    /\ pc' = "total_monthly_cost"
    /\ UNCHANGED <<exception, serverless_functions_dataframe,
                   total_monthly_cost, top_eighty_percentage_count,
                   memory_rightsizing_candidates, provisioned_concurrency_functions,
                   total_invocations, low_value_workloads, X, y, model,
                   container_candidates, shown>>

\* total_monthly_cost = frame["CostUSD"].sum()
SumTotalMonthlyCost ==
    /\ At("total_monthly_cost")
    /\ total_monthly_cost' =
           SeriesSum(Column(serverless_functions_dataframe, "CostUSD"))
    /\ pc' = "cumulative_cost"
    /\ UNCHANGED <<exception, serverless_functions_dataframe, cost_sorted_dataframe,
                   top_eighty_percentage_count,
                   memory_rightsizing_candidates, provisioned_concurrency_functions,
                   total_invocations, low_value_workloads, X, y, model,
                   container_candidates, shown>>

\* cost_sorted_dataframe["CumulativeCost"] = ...["CostUSD"].cumsum()
AddCumulativeCost ==
    /\ At("cumulative_cost")
    /\ cost_sorted_dataframe' =
           SetColumn(cost_sorted_dataframe, "CumulativeCost",
                     SeriesCumsum(Column(cost_sorted_dataframe, "CostUSD")))
    /\ pc' = "cumulative_percentage"
    /\ UNCHANGED <<exception, serverless_functions_dataframe,
                   total_monthly_cost, top_eighty_percentage_count,
                   memory_rightsizing_candidates, provisioned_concurrency_functions,
                   total_invocations, low_value_workloads, X, y, model,
                   container_candidates, shown>>

\* cost_sorted_dataframe["CumulativePercentage"] = (.../total_monthly_cost)*100
AddCumulativePercentage ==
    /\ At("cumulative_percentage")
    /\ cost_sorted_dataframe' =
           SetColumn(cost_sorted_dataframe, "CumulativePercentage",
                     [i \in 1..Len(cost_sorted_dataframe) |->
                         CumulativePercentageOf(cost_sorted_dataframe[i],
                                                total_monthly_cost)])
    /\ pc' = "top_eighty"
    /\ UNCHANGED <<exception, serverless_functions_dataframe,
                   total_monthly_cost, top_eighty_percentage_count,
                   memory_rightsizing_candidates, provisioned_concurrency_functions,
                   total_invocations, low_value_workloads, X, y, model,
                   container_candidates, shown>>

\* top_eighty_percentage_count = (...["CumulativePercentage"] <= 80).sum()
CountTopEighty ==
    /\ At("top_eighty")
    /\ top_eighty_percentage_count' =
           CountTrue([i \in 1..Len(cost_sorted_dataframe) |->
                             WithinEightyPercent(cost_sorted_dataframe[i])])
    /\ shown' = shown \cup {"Exercise 1"}
    /\ pc' = "duration_per_mb"
    /\ UNCHANGED <<exception, serverless_functions_dataframe, cost_sorted_dataframe,
                   total_monthly_cost,
                   memory_rightsizing_candidates, provisioned_concurrency_functions,
                   total_invocations, low_value_workloads, X, y, model,
                   container_candidates>>

\* frame["DurationPerMB"] = frame["AvgDurationMs"] / frame["MemoryMB"]
AddDurationPerMB ==
    /\ At("duration_per_mb")
    /\ serverless_functions_dataframe' =
           SetColumn(serverless_functions_dataframe, "DurationPerMB",
                     [i \in 1..Len(serverless_functions_dataframe) |->
                         DurationPerMBOf(serverless_functions_dataframe[i])])
    /\ pc' = "rightsizing"
    /\ UNCHANGED <<exception, cost_sorted_dataframe, total_monthly_cost,
                   top_eighty_percentage_count, memory_rightsizing_candidates,
                   provisioned_concurrency_functions, total_invocations,
                   low_value_workloads, X, y, model, container_candidates,
                   shown>>

\* memory_rightsizing_candidates = frame[mask].sort_values("CostUSD", ascending=False)
SelectRightsizingCandidates ==
    /\ At("rightsizing")
    /\ memory_rightsizing_candidates' \in
           SortValuesDescending(
               BooleanIndex(serverless_functions_dataframe,
                            [i \in 1..Len(serverless_functions_dataframe) |->
                             RightsizingMask(serverless_functions_dataframe[i])]),
               "CostUSD")
    /\ shown' = shown \cup {"Exercise 2"}
    /\ pc' = "provisioned"
    /\ UNCHANGED <<exception, serverless_functions_dataframe,
                   cost_sorted_dataframe, total_monthly_cost,
                   top_eighty_percentage_count,
                   provisioned_concurrency_functions, total_invocations,
                   low_value_workloads, X, y, model, container_candidates>>

\* provisioned_concurrency_functions = frame[frame["ProvisionedConcurrency"] > 0]
SelectProvisionedConcurrency ==
    /\ At("provisioned")
    /\ provisioned_concurrency_functions' =
           BooleanIndex(serverless_functions_dataframe,
                        [i \in 1..Len(serverless_functions_dataframe) |->
                             ProvisionedMask(serverless_functions_dataframe[i])])
    /\ shown' = shown \cup {"Exercise 3"}
    /\ pc' = "total_invocations"
    /\ UNCHANGED <<exception, serverless_functions_dataframe,
                   cost_sorted_dataframe, total_monthly_cost,
                   top_eighty_percentage_count, memory_rightsizing_candidates,
                   total_invocations, low_value_workloads, X, y, model,
                   container_candidates>>

\* total_invocations = frame["InvocationsPerMonth"].sum()
SumTotalInvocations ==
    /\ At("total_invocations")
    /\ total_invocations' =
           SeriesSum(Column(serverless_functions_dataframe, "InvocationsPerMonth"))
    /\ pc' = "invocation_percentage"
    /\ UNCHANGED <<exception, serverless_functions_dataframe,
                   cost_sorted_dataframe, total_monthly_cost,
                   top_eighty_percentage_count, memory_rightsizing_candidates,
                   provisioned_concurrency_functions, low_value_workloads, X,
                   y, model, container_candidates, shown>>

\* frame["InvocationPercentage"] = (frame["InvocationsPerMonth"] / total_invocations) * 100
AddInvocationPercentage ==
    /\ At("invocation_percentage")
    /\ serverless_functions_dataframe' =
           SetColumn(serverless_functions_dataframe, "InvocationPercentage",
                     [i \in 1..Len(serverless_functions_dataframe) |->
                         InvocationPercentageOf(serverless_functions_dataframe[i],
                                                total_invocations)])
    /\ pc' = "low_value"
    /\ UNCHANGED <<exception, cost_sorted_dataframe, total_monthly_cost,
                   top_eighty_percentage_count, memory_rightsizing_candidates,
                   provisioned_concurrency_functions, total_invocations,
                   low_value_workloads, X, y, model, container_candidates,
                   shown>>

\* low_value_workloads = frame[mask]
SelectLowValueWorkloads ==
    /\ At("low_value")
    /\ low_value_workloads' =
           BooleanIndex(serverless_functions_dataframe,
                        [i \in 1..Len(serverless_functions_dataframe) |->
                             LowValueMask(serverless_functions_dataframe[i])])
    /\ shown' = shown \cup {"Exercise 4"}
    /\ pc' = "calculated_gb_seconds"
    /\ UNCHANGED <<exception, serverless_functions_dataframe,
                   cost_sorted_dataframe, total_monthly_cost,
                   top_eighty_percentage_count, memory_rightsizing_candidates,
                   provisioned_concurrency_functions, total_invocations, X, y,
                   model, container_candidates>>

\* frame["CalculatedGBSeconds"] = ...
AddCalculatedGBSeconds ==
    /\ At("calculated_gb_seconds")
    /\ serverless_functions_dataframe' =
           SetColumn(serverless_functions_dataframe, CalculatedGBSecondsColumn,
                     [i \in 1..Len(serverless_functions_dataframe) |->
                         CalculatedGBSecondsOf(serverless_functions_dataframe[i])])
    /\ pc' = "Xy"
    /\ UNCHANGED <<exception, cost_sorted_dataframe, total_monthly_cost,
                   top_eighty_percentage_count, memory_rightsizing_candidates,
                   provisioned_concurrency_functions, total_invocations,
                   low_value_workloads, X, y, model, container_candidates,
                   shown>>

\* X = frame[[...]].fillna(0); y = frame["CostUSD"].fillna(0)
BuildXy ==
    /\ At("Xy")
    /\ X' = FeatureFrame(serverless_functions_dataframe)
    /\ y' = TargetSeries(serverless_functions_dataframe)
    /\ pc' = "fit"
    /\ UNCHANGED <<exception, serverless_functions_dataframe,
                   cost_sorted_dataframe, total_monthly_cost,
                   top_eighty_percentage_count, memory_rightsizing_candidates,
                   provisioned_concurrency_functions, total_invocations,
                   low_value_workloads, model, container_candidates, shown>>

\* model = LinearRegression().fit(X, y), when fit returns
FitModel ==
    /\ At("fit")
    /\ ~FitRaisesOn(X)
    /\ model' = LinearRegressionFit(X, y)
    /\ shown' = shown \cup {"Coefficients"}
    /\ pc' = "predict"
    /\ UNCHANGED <<exception, serverless_functions_dataframe,
                   cost_sorted_dataframe, total_monthly_cost,
                   top_eighty_percentage_count, memory_rightsizing_candidates,
                   provisioned_concurrency_functions, total_invocations,
                   low_value_workloads, X, y, container_candidates>>

\* model = LinearRegression().fit(X, y), when fit raises: the script stops
FitModelRaises ==
    /\ At("fit")
    /\ FitRaisesOn(X)
    /\ exception' = "ValueError"
    /\ pc' = pc
    /\ UNCHANGED <<serverless_functions_dataframe, cost_sorted_dataframe,
                   total_monthly_cost, top_eighty_percentage_count,
                   memory_rightsizing_candidates,
                   provisioned_concurrency_functions, total_invocations,
                   low_value_workloads, X, y, model, container_candidates,
                   shown>>

\* frame["PredictedCost"] = model.predict(X)
AddPredictedCost ==
    /\ At("predict")
    /\ serverless_functions_dataframe' =
           SetColumn(serverless_functions_dataframe, "PredictedCost", Predict(model, X))
    /\ shown' = shown \cup {"Exercise 5"}
    /\ pc' = "container"
    /\ UNCHANGED <<exception, cost_sorted_dataframe, total_monthly_cost,
                   top_eighty_percentage_count, memory_rightsizing_candidates,
                   provisioned_concurrency_functions, total_invocations,
                   low_value_workloads, X, y, model, container_candidates>>

\* container_candidates = frame[mask]
SelectContainerCandidates ==
    /\ At("container")
    /\ container_candidates' =
           BooleanIndex(serverless_functions_dataframe,
                        [i \in 1..Len(serverless_functions_dataframe) |->
                             ContainerMask(serverless_functions_dataframe[i])])
    /\ shown' = shown \cup {"Exercise 6"}
    /\ pc' = "done"
    /\ UNCHANGED <<exception, serverless_functions_dataframe,
                   cost_sorted_dataframe, total_monthly_cost,
                   top_eighty_percentage_count, memory_rightsizing_candidates,
                   provisioned_concurrency_functions, total_invocations,
                   low_value_workloads, X, y, model>>

Next ==
    \/ WriteTotalCost
    \/ SortByCost
    \/ SumTotalMonthlyCost
    \/ AddCumulativeCost
    \/ AddCumulativePercentage
    \/ CountTopEighty
    \/ AddDurationPerMB
    \/ SelectRightsizingCandidates
    \/ SelectProvisionedConcurrency
    \/ SumTotalInvocations
    \/ AddInvocationPercentage
    \/ SelectLowValueWorkloads
    \/ AddCalculatedGBSeconds
    \/ BuildXy
    \/ FitModel
    \/ FitModelRaises
    \/ AddPredictedCost
    \/ SelectContainerCandidates

Spec == Init /\ [][Next]_vars
SpecValuedCost == InitValuedCost /\ [][Next]_vars
SpecDuration == InitDuration /\ [][Next]_vars
SpecViews == InitViews /\ [][Next]_vars
SpecModel == InitModel /\ [][Next]_vars

-----------------------------------------------------------------------------
\* Properties.

Statements ==
    <<"total_cost", "sort", "total_monthly_cost", "cumulative_cost",
      "cumulative_percentage", "top_eighty", "duration_per_mb", "rightsizing",
      "provisioned", "total_invocations", "invocation_percentage", "low_value",
      "calculated_gb_seconds", "Xy", "fit", "predict", "container", "done">>

PositionOf(label) == CHOOSE i \in 1..Len(Statements) : Statements[i] = label

\* The statement at `label` has been executed.
Past(label) == PositionOf(pc) > PositionOf(label)

Table == serverless_functions_dataframe
Sorted == cost_sorted_dataframe

\* The pandas index labels of the rows of a frame.
Labels(frame) == {frame[i].index : i \in 1..Len(frame)}

NoAbsentCost == \A i \in 1..Len(Table) : ~IsNaN(Table[i].CostUSD)
NoNegativeCost == \A i \in 1..Len(Table) : ~Lt(Table[i].CostUSD, Num(0))

\* C1: after the cost ranking, CumulativeCost of the last row of the sorted
\* order equals total_monthly_cost, for every table, tables with absent
\* CostUSD included.
C1_LastCumulativeCostIsTotal ==
    (Past("cumulative_cost") /\ Len(Sorted) > 0)
        => Sorted[Len(Sorted)].CumulativeCost = total_monthly_cost

ValuedRows == Cardinality({i \in 1..Len(Sorted) : ~IsNaN(Sorted[i].CostUSD)})

C8_RankingIsStable ==
    /\ Past("sort") =>
          \A i, j \in 1..Len(Sorted) :
              (i < j /\ ~IsNaN(Sorted[i].CostUSD) /\ ~IsNaN(Sorted[j].CostUSD))
                  => /\ ~Lt(Sorted[i].CostUSD, Sorted[j].CostUSD)
                     /\ Sorted[i].CostUSD = Sorted[j].CostUSD
                            => Sorted[i].index < Sorted[j].index
    /\ Past("rightsizing") =>
          \A i, j \in 1..Len(memory_rightsizing_candidates) :
              (i < j /\ memory_rightsizing_candidates[i].CostUSD
                            = memory_rightsizing_candidates[j].CostUSD)
                  => memory_rightsizing_candidates[i].index
                         < memory_rightsizing_candidates[j].index

\* The summed CostUSD of the first k rows of the sorted order.
PrefixCost(k) == SumUpTo(Column(Sorted, "CostUSD"), k)

\* s is at most 80% of total_monthly_cost.
AtMostEightyPercentOfTotal(s) ==
    Le(Mul(s, Num(100)), Mul(Num(80), total_monthly_cost))

\* C10: with no absent and no negative CostUSD and total_monthly_cost > 0,
\* the rows counted by top_eighty_percentage_count are the first k rows of
\* the sorted order, their summed CostUSD is at most 80% of the total, the
\* first k+1 rows (if there are that many) sum to more than 80%, and k is 0
\* when the most expensive row alone exceeds 80%.
C10_EightyPercentCountIsPrefix ==
    (Past("top_eighty") /\ NoAbsentCost /\ NoNegativeCost
        /\ Gt(total_monthly_cost, Num(0)))
        => LET k == top_eighty_percentage_count IN
           /\ k \in 0..Len(Sorted)
           /\ \A i \in 1..Len(Sorted) :
                 Le(Sorted[i].CumulativePercentage, Num(80)) <=> i <= k
           /\ AtMostEightyPercentOfTotal(PrefixCost(k))
           /\ k < Len(Sorted) => ~AtMostEightyPercentOfTotal(PrefixCost(k + 1))
           /\ ~AtMostEightyPercentOfTotal(Sorted[1].CostUSD) => k = 0

\* C10 witness: a counted table where the count stops inside the table, at a
\* prefix that is exactly 80% of the total.
C10_Witness ==
    /\ Past("top_eighty")
    /\ NoAbsentCost /\ NoNegativeCost
    /\ Gt(total_monthly_cost, Num(0))
    /\ top_eighty_percentage_count = 1
    /\ Len(Sorted) = 3
    /\ Mul(PrefixCost(1), Num(100)) = Mul(Num(80), total_monthly_cost)

\* The row of the table with pandas index label l is in the view.
InView(view, l) == l \in Labels(view)

\* A view is a subsequence of the table's rows: each of its rows is the row
\* of the table with the same label, field by input field, and no label
\* occurs twice.
IsSelection(view) ==
    /\ \A j \in 1..Len(view) :
          \E i \in 1..Len(Table) :
              /\ Table[i].index = view[j].index
              /\ \A c \in InputColumns : Table[i][c] = view[j][c]
    /\ Cardinality(Labels(view)) = Len(view)

\* C3: memory_rightsizing_candidates holds exactly the rows of the table with
\* DurationPerMB < 0.3, MemoryMB > 1024 and Environment == "production".
C3_RightsizingExactlyThePredicate ==
    Past("rightsizing")
        => /\ IsSelection(memory_rightsizing_candidates)
           /\ \A i \in 1..Len(Table) :
                 InView(memory_rightsizing_candidates, Table[i].index)
                     <=> /\ Lt(Table[i].DurationPerMB, Frac(3, 10))
                         /\ Gt(Table[i].MemoryMB, Num(1024))
                         /\ Table[i].Environment = "production"

\* C3 witness: a table of which one row is a candidate and another row is
\* kept out by its Environment alone.
C3_Witness ==
    /\ Past("rightsizing")
    /\ Len(Table) = 2
    /\ Len(memory_rightsizing_candidates) = 1
    /\ \E i \in 1..Len(Table) :
          /\ ~InView(memory_rightsizing_candidates, Table[i].index)
          /\ Lt(Table[i].DurationPerMB, Frac(3, 10))
          /\ Gt(Table[i].MemoryMB, Num(1024))
          /\ Table[i].Environment = "staging"

\* C4: a row with an absent value in a field a view's predicate refers to
\* (a derived field included) is in none of the views that refer to it, and
\* no view statement is the one that raised.
C4_AbsentFieldsExcluded ==
    /\ Past("rightsizing") =>
          \A i \in 1..Len(Table) :
              (\/ IsNaN(Table[i].DurationPerMB)
               \/ IsNaN(Table[i].AvgDurationMs)
               \/ IsNaN(Table[i].MemoryMB)
               \/ Table[i].Environment = "None")
                  => ~InView(memory_rightsizing_candidates, Table[i].index)
    /\ Past("provisioned") =>
          \A i \in 1..Len(Table) :
              IsNaN(Table[i].ProvisionedConcurrency)
                  => ~InView(provisioned_concurrency_functions, Table[i].index)
    /\ Past("low_value") =>
          \A i \in 1..Len(Table) :
              (\/ IsNaN(Table[i].InvocationPercentage)
               \/ IsNaN(Table[i].InvocationsPerMonth)
               \/ IsNaN(Table[i].CostUSD))
                  => ~InView(low_value_workloads, Table[i].index)
    /\ Past("container") =>
          \A i \in 1..Len(Table) :
              (\/ IsNaN(Table[i].AvgDurationMs)
               \/ IsNaN(Table[i].MemoryMB)
               \/ IsNaN(Table[i].InvocationsPerMonth))
                  => ~InView(container_candidates, Table[i].index)
    /\ exception # "None" =>
          pc \notin {"rightsizing", "provisioned", "low_value", "container"}

\* C4 witness: a finished run in which all four views are non-empty or were
\* offered a row with an absent field: a candidate next to a row that meets
\* the container thresholds but has no InvocationsPerMonth.
C4_Witness ==
    /\ pc = "done"
    /\ Len(memory_rightsizing_candidates) = 1
    /\ \E i \in 1..Len(Table) :
          /\ IsNaN(Table[i].InvocationsPerMonth)
          /\ IsNaN(Table[i].InvocationPercentage)
          /\ Gt(Table[i].CostUSD, Num(10))
          /\ Gt(Table[i].AvgDurationMs, Num(3000))
          /\ Gt(Table[i].MemoryMB, Num(2048))
          /\ ~InView(container_candidates, Table[i].index)
          /\ ~InView(low_value_workloads, Table[i].index)

\* C5: a row whose MemoryMB is absent or 0 has an absent DurationPerMB (not
\* zero, not infinity, no other number) and is not a rightsizing candidate.
C5_DurationPerMBAbsentOnZeroMemory ==
    /\ Past("duration_per_mb") =>
          \A i \in 1..Len(Table) :
              (IsNaN(Table[i].MemoryMB) \/ Table[i].MemoryMB = Num(0))
                  => IsNaN(Table[i].DurationPerMB)
    /\ Past("rightsizing") =>
          \A i \in 1..Len(Table) :
              (IsNaN(Table[i].MemoryMB) \/ Table[i].MemoryMB = Num(0))
                  => ~InView(memory_rightsizing_candidates, Table[i].index)

\* The fit has been attempted: it returned or it raised.
FitAttempted == Past("fit") \/ exception # "None"

\* C6: when fewer than 3 rows are fitted or the two feature columns are
\* collinear, the fit signals an error and returns no coefficients and no
\* PredictedCost column.
C6_DegenerateFitSignalsError ==
    (FitAttempted /\ (Len(X) < 3 \/ Collinear(X)))
        => /\ exception # "None"
           /\ ~model.fitted
           /\ \A i \in 1..Len(Table) : "PredictedCost" \notin DOMAIN Table[i]

OtherOutputs ==
    {"Total cost", "Exercise 1", "Exercise 2", "Exercise 3", "Exercise 4",
     "Exercise 6"}

\* C7: when the fit has failed and the run is over, every other output has
\* been produced, container_candidates (computed after the fit) included.
C7_OtherOutputsSurviveFitFailure ==
    (exception # "None" /\ ~ENABLED Next) => OtherOutputs \subseteq shown

\* C9: no statement changes the number or order of the rows of the main
\* table or the value of an input field of a row; a statement only adds
\* columns.  So an absent CostUSD or DataTransferGB stays absent.
C9_StatementsOnlyAddColumns ==
    [][/\ Len(serverless_functions_dataframe') = Len(serverless_functions_dataframe)
       /\ \A i \in 1..Len(serverless_functions_dataframe) :
             /\ DOMAIN serverless_functions_dataframe[i]
                    \subseteq DOMAIN serverless_functions_dataframe'[i]
             /\ serverless_functions_dataframe'[i].index
                    = serverless_functions_dataframe[i].index
             /\ \A c \in InputColumns :
                    serverless_functions_dataframe'[i][c]
                        = serverless_functions_dataframe[i][c]]_vars

\* C9 witness: a finished run whose model was fitted on a table with a row
\* that still has no CostUSD and no DataTransferGB, after PredictedCost and
\* the other derived columns were added.
C9_Witness ==
    /\ pc = "done"
    /\ model.fitted
    /\ \E i \in 1..Len(Table) :
          /\ IsNaN(Table[i].CostUSD)
          /\ IsNaN(Table[i].DataTransferGB)
          /\ y[i] = Num(0)
          /\ X[i].DataTransferGB = Num(0)
          /\ {"DurationPerMB", "InvocationPercentage", "CalculatedGBSeconds",
              "PredictedCost"} \subseteq DOMAIN Table[i]

====
